---- MODULE Spec2Model ----
(***************************************************************************)
(* Model of the quantitative-test batch converter                          *)
(* (QuantitativeManagementView.processAndSaveTests and its helpers) and of *)
(* the test store it writes through (useAppData.addTest /                  *)
(* addQuestionsToTest / saveGlobalTests).                                  *)
(*                                                                         *)
(* processAndSaveTests is an async function: every action below is one of  *)
(* its synchronous segments, from one await to the next.  The page tasks   *)
(* of a window (processSinglePage) settle one by one in any order.         *)
(***************************************************************************)
EXTENDS Integers, Sequences, FiniteSets, TLC

(***************************************************************************)
(* Bounds of the model.                                                    *)
(***************************************************************************)
MaxFiles == 2          \* length of the selected file list
MaxBatchPages == 9     \* pages (pdf.numPages) summed over the selected files
MaxPageFailures == 2   \* page tasks that fail in one run
MaxNow == 1            \* milliseconds the clock advances (Date.now())
MaxTextPieces == 3     \* pieces of the argument of extractAnswerFromText
MaxPageText == 2       \* pieces of the text of the text layer and of the OCR text
MaxNormCalls == 2      \* calls of normalizeAnswer with one argument
MaxPasses == 2         \* runs of the thresholding loop over one image
MaxTokens == 3         \* text items kept by detectAnswerFromPdfText
MaxAttempts == 1       \* tests finished by the user

(***************************************************************************)
(* Program constants.                                                      *)
(***************************************************************************)
CONCURRENCY_LIMIT_Wide == 5 + 1
CONCURRENCY_LIMIT == 5
\* Math.round(n / 0 * 100) for n > 0 is Infinity: a value above every percentage
Infinity == 1000000
isDevUser == TRUE

\* a Test saved in an earlier session (its id is a Date.now() of the past)
OldTest == [id |-> -1, name |-> <<"o">>, questions |-> <<>>, sourceText |-> <<>>]

Null == <<>>
RefBox == [x |-> 40, y |-> 60, width |-> 300, height |-> 120]

Max(a, b) == IF a >= b THEN a ELSE b
Min(a, b) == IF a <= b THEN a ELSE b

(***************************************************************************)
(* The documents the operator can select: file.name as a sequence of       *)
(* characters and pdf.numPages.  Files 1 and 5 share a name.               *)
(***************************************************************************)
FileIds == 1..5
FileName(f) ==
    CASE f = 1 -> <<"a", " ", "-", "b", ".", "p", "d", "f">>
      [] f = 2 -> <<"b", ".", "p", "d", "f">>
      [] f = 3 -> <<" ", "c", "-", "-", ".", "P", "D", "F">>
      [] f = 4 -> <<"-", "a", ".", "p", "d", "f">>
      [] OTHER -> <<"a", " ", "-", "b", ".", "p", "d", "f">>
NumPages(f) ==
    CASE f = 1 -> 7
      [] f = 2 -> 6
      [] f = 3 -> 2
      [] f = 4 -> 1
      [] OTHER -> 0

RECURSIVE SumPages(_)
SumPages(fs) == IF fs = <<>> THEN 0 ELSE NumPages(Head(fs)) + SumPages(Tail(fs))

(***************************************************************************)
(* Test name: file.name.replace(/\.pdf$/i, '').split('-')[0].trim()        *)
(***************************************************************************)
Lower(c) == CASE c = "P" -> "p" [] c = "D" -> "d" [] c = "F" -> "f" [] OTHER -> c
EndsWithPdf(s) ==
    /\ Len(s) >= 4
    /\ [i \in 1..4 |-> Lower(s[Len(s) - 4 + i])] = <<".", "p", "d", "f">>
StripPdf(s) == IF EndsWithPdf(s) THEN SubSeq(s, 1, Len(s) - 4) ELSE s
BeforeDash_Last(s) ==
    LET dashes == {i \in 1..Len(s) : s[i] = "-"}
    IN IF dashes = {} THEN s
       ELSE SubSeq(s, 1, (CHOOSE i \in dashes : \A j \in dashes : i >= j) - 1)
BeforeDash(s) ==
    LET dashes == {i \in 1..Len(s) : s[i] = "-"}
    IN IF dashes = {} THEN s
       ELSE SubSeq(s, 1, (CHOOSE i \in dashes : \A j \in dashes : i <= j) - 1)
Trim(s) ==
    LET solid == {i \in 1..Len(s) : s[i] # " "}
    IN IF solid = {} THEN <<>>
       ELSE SubSeq(s, CHOOSE i \in solid : \A j \in solid : i <= j,
                      CHOOSE i \in solid : \A j \in solid : i >= j)
TestName(name) == Trim(BeforeDash(StripPdf(name)))

(***************************************************************************)
(* Page range and windows of one document.                                 *)
(***************************************************************************)
PagesInFile(numPages) == IF numPages > 1 THEN numPages - 1 ELSE 0
PageIndices_FromCover(numPages) == [j \in 1..Max(numPages, 0) |-> j]
\* Array.from({length: n}) has length 0 for n < 0
PageIndices(numPages) == [j \in 1..Max(numPages - 1, 0) |-> j + 1]
Chunk(pageIndices, i) ==
    SubSeq(pageIndices, i + 1, Min(i + CONCURRENCY_LIMIT, Len(pageIndices)))

\* Math.round(count / total * 100)
RoundPercent(count, total) ==
    IF total = 0 THEN Infinity ELSE (200 * count + total) \div (2 * total)

(***************************************************************************)
(* Answer text.  A string is a sequence of characters; the Arabic letters  *)
(* are written by their Unicode names.  A value that can be null is Null   *)
(* or <<value>>.                                                           *)
(***************************************************************************)
Some(v) == <<v>>
\* !v for a string or null
Falsy(v) == v = Null \/ v = Some(<<>>)

LetterAlef == <<"ALEF_HAMZA_ABOVE">>
LetterBeh == <<"BEH">>
LetterJeem == <<"JEEM">>
LetterDal == <<"DAL">>
options == <<LetterAlef, LetterBeh, LetterJeem, LetterDal>>

Includes(s, c) == \E i \in 1..Len(s) : s[i] = c
normalizeAnswer_Raw(str) == Some(str)
normalizeAnswer_LatinJ(str) ==
    IF str = <<>> THEN Null
    ELSE LET s == Trim(str)
         IN IF \E c \in {"ALEF_HAMZA_ABOVE", "ALEF", "A", "a"} : Includes(s, c)
            THEN Some(LetterAlef)
            ELSE IF \E c \in {"BEH", "B", "b"} : Includes(s, c)
            THEN Some(LetterBeh)
            ELSE IF \E c \in {"JEEM", "C", "c", "j"} : Includes(s, c)
            THEN Some(LetterJeem)
            ELSE IF \E c \in {"DAL", "D", "d"} : Includes(s, c)
            THEN Some(LetterDal)
            ELSE Null
normalizeAnswer(str) ==
    IF str = <<>> THEN Null
    ELSE LET s == Trim(str)
         IN IF \E c \in {"ALEF_HAMZA_ABOVE", "ALEF", "A", "a"} : Includes(s, c)
            THEN Some(LetterAlef)
            ELSE IF \E c \in {"BEH", "B", "b"} : Includes(s, c)
            THEN Some(LetterBeh)
            ELSE IF \E c \in {"JEEM", "C", "c", "J"} : Includes(s, c)
            THEN Some(LetterJeem)
            ELSE IF \E c \in {"DAL", "D", "d"} : Includes(s, c)
            THEN Some(LetterDal)
            ELSE Null

\* text.replace(/[\s\u00A0\u200B\u200C\u200D\u200E\u200F_\-\.]/g, '')
Removed == {" ", "NBSP", "ZWSP", "ZWNJ", "ZWJ", "LRM", "RLM", "_", "-", "."}
CleanText(str) == SelectSeq(str, LAMBDA c : c \notin Removed)

markers ==
    << <<"ALEF", "LAM", "SAD", "HAH", "YEH", "HAH", "TEH_MARBUTA">>,
       <<"ALEF", "LAM", "SAD", "HAH", "YEH", "HAH", "HEH">>,
       <<"ALEF", "LAM", "ALEF", "JEEM", "ALEF", "BEH", "TEH_MARBUTA">>,
       <<"ALEF", "LAM", "ALEF_HAMZA_BELOW", "JEEM", "ALEF", "BEH", "TEH_MARBUTA">>,
       <<"ALEF", "LAM", "ALEF_HAMZA_ABOVE", "JEEM", "ALEF", "BEH", "TEH_MARBUTA">>,
       <<"ALEF", "LAM", "JEEM", "WAW", "ALEF", "BEH">> >>

\* s.lastIndexOf(m), indices from 0
LastIndexOf(s, m) ==
    LET hits == {i \in 0..(Len(s) - Len(m)) : SubSeq(s, i + 1, i + Len(m)) = m}
    IN IF hits = {} THEN -1 ELSE CHOOSE i \in hits : \A j \in hits : i >= j

\* the loop over the markers: <<lastIndex, matchedMarkerLength>>
RECURSIVE LastMarker(_, _, _, _)
LastMarker(clean, ms, lastIndex, matchedMarkerLength) ==
    IF ms = <<>> THEN <<lastIndex, matchedMarkerLength>>
    ELSE LET m == Head(ms)
             idx == LastIndexOf(clean, m)
         IN IF idx > -1 /\ idx > lastIndex
            THEN LastMarker(clean, Tail(ms), idx, Len(m))
            ELSE IF idx > -1 /\ idx = lastIndex /\ Len(m) > matchedMarkerLength
            THEN LastMarker(clean, Tail(ms), lastIndex, Len(m))
            ELSE LastMarker(clean, Tail(ms), lastIndex, matchedMarkerLength)

\* the i flag of the pattern
ToUpperCase(c) ==
    CASE c = "a" -> "A" [] c = "b" -> "B" [] c = "c" -> "C" [] c = "d" -> "D"
      [] c = "x" -> "X" [] OTHER -> c
\* s.match(/([...])/i): Null or <<the first character that matches>>
MatchAnswerLetter_Last(s) ==
    LET hits == {i \in 1..Len(s) :
                    ToUpperCase(s[i]) \in {"ALEF_HAMZA_ABOVE", "BEH", "JEEM", "DAL",
                                           "A", "B", "C", "D"}}
    IN IF hits = {} THEN Null
       ELSE Some(<<s[CHOOSE i \in hits : \A j \in hits : i >= j]>>)
MatchAnswerLetter(s) ==
    LET hits == {i \in 1..Len(s) :
                    ToUpperCase(s[i]) \in {"ALEF_HAMZA_ABOVE", "BEH", "JEEM", "DAL",
                                           "A", "B", "C", "D"}}
    IN IF hits = {} THEN Null
       ELSE Some(<<s[CHOOSE i \in hits : \A j \in hits : i <= j]>>)

\* clean.substring(from)
Substring(s, from) == SubSeq(s, Min(from, Len(s)) + 1, Len(s))

extractAnswerFromText(str) ==
    IF str = <<>> THEN Null
    ELSE LET clean == CleanText(str)
             last == LastMarker(clean, markers, -1, 0)
             lastIndex == last[1]
             matchedMarkerLength == last[2]
             targetPart == Substring(clean, lastIndex + matchedMarkerLength)
             afterMarker == IF lastIndex # -1 THEN MatchAnswerLetter(targetPart) ELSE Null
             short == IF Len(clean) < 10 THEN MatchAnswerLetter(clean) ELSE Null
         IN IF afterMarker # Null THEN normalizeAnswer(afterMarker[1])
            ELSE IF short # Null THEN normalizeAnswer(short[1])
            ELSE Null

\* detectAnswerFromPdfText on a page whose text layer gives layer.text between
\* the padded bounds of the answer box, or throws
detectAnswerFromPdfText(layer) ==
    IF layer.threw THEN Null ELSE extractAnswerFromText(layer.text)

\* detectAnswerFromImage on an image that Tesseract reads as recognized.text,
\* or on which it throws
detectAnswerFromImage_NoFallback(recognized) ==
    IF recognized.threw THEN Null ELSE extractAnswerFromText(recognized.text)
detectAnswerFromImage(recognized) ==
    IF recognized.threw THEN Some(LetterAlef)
    ELSE LET ans == extractAnswerFromText(recognized.text)
         IN IF Falsy(ans) THEN Some(LetterAlef) ELSE ans

\* JSON.stringify of a CalibrationConfig: per box the literal null or the
\* members x, y, width, height in their order
BoxJson(box) ==
    IF box = Null THEN <<>> ELSE <<box[1].x, box[1].y, box[1].width, box[1].height>>
JsonStringify(config) == <<BoxJson(config.questionBox), BoxJson(config.answerBox)>>
JsonBox(json) ==
    IF json = <<>> THEN Null
    ELSE Some([x |-> json[1], y |-> json[2], width |-> json[3], height |-> json[4]])
JsonParse(blob) == [questionBox |-> JsonBox(blob[1]), answerBox |-> JsonBox(blob[2])]

\* the initializer of the cropConfig state
LoadCropConfig(saved) ==
    IF saved # Null THEN JsonParse(saved[1]) ELSE [questionBox |-> Null, answerBox |-> Null]

(***************************************************************************)
(* State.                                                                  *)
(***************************************************************************)
VARIABLES
    cropConfig,           \* useState cropConfig: each box is Null or <<box>>
    files,                \* useState files: the selected documents
    isProcessing,         \* useState isProcessing
    processStatus,        \* useState processStatus
    processProgress,      \* useState processProgress
    pc,                   \* where the running processAndSaveTests is suspended
    runFiles,             \* `files` as captured by the running closure
    runTests,             \* `globalTests` as captured by onAddTest's closure
    runCropConfig,        \* `cropConfig` as captured by processSinglePage's closure
    cnt,                  \* index of the file being read in the counting pass
    filePageCounts,       \* Map file.name -> pagesInFile, as a set of <<name, pages>>
    totalPagesToProcess,
    globalProcessedCount,
    docIdx,               \* index of the file of the conversion loop
    pdfPages,             \* pdf.numPages of the open document
    winStart,             \* loop variable i of the window loop
    tasks,                \* processSinglePage promises: [doc, page, state]
    questionsToAdd,
    globalTests,          \* useState globalTests.quantitative
    remoteTests,          \* document globalContent/main, tests.quantitative
    now,                  \* Date.now()
    \* history of the current run, kept for the properties
    lastCall,             \* how the last processAndSaveTests call went
    counted,              \* files whose read succeeded in the counting pass
    countFailed,          \* a read failed in the counting pass
    convFailedAt,         \* file whose read failed in the conversion loop, or 0
    submitted,            \* <<doc, page>> handed to processSinglePage, in order
    windows,              \* per file, windows dispatched
    createCalls,          \* onAddTest calls: file, name, returned id
    addCalls,             \* onAddQuestionsToTest calls: file, testId, questions
    pageFailures,         \* page tasks that failed
    outOfOrder,           \* a page settled before a lower page of its window
    cropsUsed,            \* [doc, page, questionBox, answerBox] of the pages cropped
    updates,              \* [count, reported, value] after each window
    \* calibration
    currentCropMode,      \* useState currentCropMode: "none", "question", "answer"
    isDrawing,            \* useState isDrawing
    startPos,             \* useState startPos: Null or <<[x, y]>>
    storedCropConfig,     \* localStorage item STORAGE_KEY_CROP_CONFIG: Null or <<blob>>
    referenceImage,       \* useState referenceImage is not null
    lastCalib,            \* how the last calibration step went
    \* one processSinglePage call
    textLayer,            \* what the text layer of the page gives: [threw, text]
    ocr,                  \* what Tesseract.recognize gives for the answer image
    pagePc,               \* where processSinglePage is suspended
    pdfTextAnswer,        \* what detectAnswerFromPdfText returned
    detectedAnswer,       \* local detectedAnswer
    ocrCalls,             \* calls of detectAnswerFromImage
    pageResult,           \* what processSinglePage returned: Null or <<question>>
    \* one extractAnswerFromText call
    text,                 \* its argument
    extractPc,            \* "called" or "returned"
    extracted,            \* what it returned
    \* normalizeAnswer applied to one character
    normArg,              \* its argument
    normResults,          \* what its calls returned, in order
    \* the thresholding loop of preprocessImage
    srcData,              \* imageData.data as drawn from the image: pixels [r, g, b, a]
    passResults,          \* imageData.data after each run of the loop, in order
    \* the sort of detectAnswerFromPdfText
    foundItems,           \* the kept tokens [str, x, y] in text-content order
    sortedItems,          \* Null or <<foundItems after foundItems.sort(...)>>
    rawText,              \* Null or <<the joined strings>>
    \* the user data of useAppData (section 'quantitative')
    userData,             \* useState userData: [history, reviewTests, reviewedQuestionIds]
    remoteUserData,       \* document userData/<userId>: Null or <<the same fields>>
    userKind,             \* "regular", "preview" (isDevUser, isPreviewMode) or "dev"
    attemptLog            \* the attempts handleFinishTest was called for, and
                          \* whether the writes of the call went through

vars == <<cropConfig, files, isProcessing, processStatus, processProgress, pc,
          runFiles, runTests, runCropConfig, cnt, filePageCounts, totalPagesToProcess,
          globalProcessedCount, docIdx, pdfPages, winStart, tasks,
          questionsToAdd, globalTests, remoteTests, now, lastCall, counted,
          countFailed, convFailedAt, submitted, windows, createCalls, addCalls,
          pageFailures, outOfOrder, cropsUsed, updates, currentCropMode, isDrawing, startPos,
          storedCropConfig, referenceImage, lastCalib, textLayer, ocr, pagePc, pdfTextAnswer,
          detectedAnswer, ocrCalls, pageResult, text, extractPc, extracted,
          normArg, normResults, srcData, passResults, foundItems, sortedItems,
          rawText, userData, remoteUserData, userKind, attemptLog>>

calibVars == <<cropConfig, currentCropMode, isDrawing, startPos, storedCropConfig,
               referenceImage, lastCalib>>
detectVars == <<textLayer, ocr, pagePc, pdfTextAnswer, detectedAnswer, ocrCalls,
                pageResult, text, extractPc, extracted>>
normVars == <<normArg, normResults>>
pixelVars == <<srcData, passResults>>
sortVars == <<foundItems, sortedItems, rawText>>
userVars == <<userData, remoteUserData, userKind, attemptLog>>
asideVars == <<normVars, pixelVars, sortVars, userVars>>
uiVars == <<calibVars, files>>
storeVars == <<globalTests, remoteTests, createCalls, addCalls>>
countVars == <<cnt, filePageCounts, totalPagesToProcess, counted, countFailed>>
pageVars == <<tasks, submitted, windows, winStart, pdfPages, questionsToAdd,
              pageFailures, outOfOrder, cropsUsed, updates>>

Status(kind, name, pages) == [kind |-> kind, name |-> name, pages |-> pages]
StatusIdle == Status("", <<>>, 0)
StatusPreparing == Status("preparing", <<>>, 0)
StatusSuccess == Status("success", <<>>, 0)
StatusError == Status("error", <<>>, 0)
\* filePageCounts.get(file.name) || 0
MapSet(counts, name, v) == {e \in counts : e[1] # name} \cup {<<name, v>>}
TotalPagesOf(counts, name) ==
    IF \E e \in counts : e[1] = name THEN (CHOOSE e \in counts : e[1] = name)[2] ELSE 0
StatusProcessing(counts, f) ==
    Status("processing", TestName(FileName(f)), TotalPagesOf(counts, FileName(f)))

BoxesMissing_QuestionOnly(config) == config.questionBox = Null
BoxesMissing(config) == config.questionBox = Null \/ config.answerBox = Null

\* what localStorage can hold when the component mounts: nothing, or what an
\* earlier saveCropConfig wrote
StoredConfigs ==
    {Null} \cup
    {Some(JsonStringify(c)) :
        c \in [questionBox : {Null, Some(RefBox)}, answerBox : {Null, Some(RefBox)}]
              \ {[questionBox |-> Null, answerBox |-> Null]}}

\* no processSinglePage call and no extractAnswerFromText call is being followed
NoInput == [threw |-> FALSE, text |-> <<>>]
DetectIdle ==
    /\ textLayer = NoInput
    /\ ocr = NoInput
    /\ pagePc = "idle"
    /\ pdfTextAnswer = Null
    /\ detectedAnswer = Null
    /\ ocrCalls = 0
    /\ pageResult = Null
    /\ text = <<>>
    /\ extractPc = "idle"
    /\ extracted = Null

NormIdle ==
    /\ normArg = <<>>
    /\ normResults = <<>>
PixelIdle ==
    /\ srcData = <<>>
    /\ passResults = <<>>
SortIdle ==
    /\ foundItems = <<>>
    /\ sortedItems = Null
    /\ rawText = Null
\* the user data of a signed-in developer before the document is loaded
UserIdle ==
    /\ userData = [history |-> <<>>, reviewTests |-> <<>>, reviewedQuestionIds |-> {}]
    /\ remoteUserData = Null
    /\ userKind = "dev"
    /\ attemptLog = <<>>
AsideIdle == NormIdle /\ PixelIdle /\ SortIdle /\ UserIdle

\* the component after mount, before any event
Mounted ==
    /\ cropConfig = LoadCropConfig(storedCropConfig)
    /\ currentCropMode = "none"
    /\ isDrawing = FALSE
    /\ startPos = Null
    /\ referenceImage = FALSE
    /\ lastCalib = [event |-> "none"]
    /\ files = <<>>
    /\ isProcessing = FALSE
    /\ processStatus = StatusIdle
    /\ processProgress = 0
    /\ pc = "idle"
    /\ runFiles = <<>>
    /\ runTests = <<>>
    /\ runCropConfig = [questionBox |-> Null, answerBox |-> Null]
    /\ cnt = 0
    /\ filePageCounts = {}
    /\ totalPagesToProcess = 0
    /\ globalProcessedCount = 0
    /\ docIdx = 0
    /\ pdfPages = 0
    /\ winStart = 0
    /\ tasks = {}
    /\ questionsToAdd = <<>>
    /\ globalTests = <<>>
    /\ remoteTests \in {<<>>, <<OldTest>>}
    /\ now = 0
    /\ lastCall = "none"
    /\ counted = {}
    /\ countFailed = FALSE
    /\ convFailedAt = 0
    /\ submitted = <<>>
    /\ windows = <<>>
    /\ createCalls = <<>>
    /\ addCalls = <<>>
    /\ pageFailures = 0
    /\ outOfOrder = FALSE
    /\ cropsUsed = {}
    /\ updates = <<>>

Init ==
    /\ storedCropConfig \in StoredConfigs
    /\ Mounted
    /\ DetectIdle
    /\ AsideIdle

(***************************************************************************)
(* File list.  A running conversion works on the `files` array its closure *)
(* captured, so the list is edited between runs only.                      *)
(***************************************************************************)
\* the locals of a finished processAndSaveTests call are out of scope, and the
\* history describes the run in progress or the one that just ended
ForgetRun ==
    /\ runFiles' = <<>>
    /\ runTests' = <<>>
    /\ runCropConfig' = [questionBox |-> Null, answerBox |-> Null]
    /\ cnt' = 0
    /\ filePageCounts' = {}
    /\ totalPagesToProcess' = 0
    /\ globalProcessedCount' = 0
    /\ docIdx' = 0
    /\ pdfPages' = 0
    /\ winStart' = 0
    /\ tasks' = {}
    /\ questionsToAdd' = <<>>
    /\ counted' = {}
    /\ countFailed' = FALSE
    /\ convFailedAt' = 0
    /\ submitted' = <<>>
    /\ windows' = <<>>
    /\ createCalls' = <<>>
    /\ addCalls' = <<>>
    /\ pageFailures' = 0
    /\ outOfOrder' = FALSE
    /\ cropsUsed' = {}
    /\ updates' = <<>>

HandleFilesChange(f) ==
    /\ ~isProcessing
    /\ Len(files) < MaxFiles
    /\ SumPages(files) + NumPages(f) <= MaxBatchPages
    /\ files' = Append(files, f)
    /\ ForgetRun
    /\ UNCHANGED <<calibVars, detectVars, asideVars, isProcessing, processStatus, processProgress, pc,
                   globalTests, remoteTests, now, lastCall>>

RemoveFile(index) ==
    /\ ~isProcessing
    /\ index \in 1..Len(files)
    /\ files' = [j \in 1..(Len(files) - 1) |-> IF j < index THEN files[j] ELSE files[j + 1]]
    /\ ForgetRun
    /\ UNCHANGED <<calibVars, detectVars, asideVars, isProcessing, processStatus, processProgress, pc,
                   globalTests, remoteTests, now, lastCall>>

(***************************************************************************)
(* Environment: the clock, and the snapshot listener of globalContent/main, *)
(* which replaces the state by the content of the document.                *)
(***************************************************************************)
Tick ==
    /\ now < MaxNow
    /\ now' = now + 1
    /\ UNCHANGED <<uiVars, detectVars, asideVars, isProcessing, processStatus, processProgress, pc,
                   runFiles, runTests, runCropConfig, countVars, globalProcessedCount, docIdx,
                   pageVars, storeVars, lastCall, convFailedAt>>

OnSnapshot ==
    /\ globalTests # remoteTests
    /\ globalTests' = remoteTests
    /\ UNCHANGED <<uiVars, detectVars, asideVars, isProcessing, processStatus, processProgress, pc,
                   runFiles, runTests, runCropConfig, countVars, globalProcessedCount, docIdx,
                   pageVars, remoteTests, createCalls, addCalls, now, lastCall,
                   convFailedAt>>

(***************************************************************************)
(* The test store (useAppData): saveGlobalTests copies the `globalTests`   *)
(* of the render its closure belongs to, applies the updater, sets the     *)
(* state and writes the document.                                          *)
(***************************************************************************)
NewTest(name, sourceName) ==
    [id |-> now, name |-> name, questions |-> <<>>, sourceText |-> sourceName]
\* addTest's updater, section 'quantitative'
AddTestDraft(draft, newTest) == Append(draft, newTest)
\* addQuestionsToTest's updater, section 'quantitative'
AddQuestionsDraft(draft, testId, qs) ==
    LET hits == {j \in 1..Len(draft) : draft[j].id = testId}
    IN IF hits = {} THEN draft
       ELSE LET testIndex == CHOOSE j \in hits : \A h \in hits : j <= h
            IN [draft EXCEPT ![testIndex].questions = @ \o qs]
\* addTest and addQuestionsToTest, section 'quantitative': the newTests that
\* their saveGlobalTests call sets as state and writes to the document, a copy
\* of the globalTests captured by the closure with the updater applied
AddTest(captured, newTest) ==
    IF ~isDevUser THEN captured ELSE AddTestDraft(captured, newTest)
AddQuestionsToTest(captured, testId, qs) ==
    IF ~isDevUser THEN captured ELSE AddQuestionsDraft(captured, testId, qs)

(***************************************************************************)
(* processAndSaveTests, the click handler of the convert button (disabled  *)
(* while isProcessing).                                                    *)
(***************************************************************************)
runVars == <<isProcessing, processStatus, processProgress, pc, runFiles, runTests, runCropConfig,
             countVars, globalProcessedCount, docIdx, pageVars, storeVars,
             convFailedAt>>

ProcessRejected ==
    /\ ~isProcessing
    /\ BoxesMissing(cropConfig)
    /\ lastCall' = "rejected"
    /\ UNCHANGED <<uiVars, detectVars, asideVars, runVars, now>>

ProcessNoFiles ==
    /\ ~isProcessing
    /\ ~BoxesMissing(cropConfig)
    /\ Len(files) = 0
    /\ lastCall' = "nofiles"
    /\ UNCHANGED <<uiVars, detectVars, asideVars, runVars, now>>

ProcessStart ==
    /\ ~isProcessing
    /\ ~BoxesMissing(cropConfig)
    /\ Len(files) > 0
    /\ lastCall' = "started"
    /\ isProcessing' = TRUE
    /\ processStatus' = StatusPreparing
    /\ processProgress' = 0
    /\ runFiles' = files
    /\ runTests' = globalTests
    /\ runCropConfig' = cropConfig
    /\ totalPagesToProcess' = 0
    /\ filePageCounts' = {}
    /\ cnt' = 1
    /\ pc' = "counting"
    /\ counted' = {}
    /\ countFailed' = FALSE
    /\ convFailedAt' = 0
    /\ globalProcessedCount' = 0
    /\ docIdx' = 0
    /\ pdfPages' = 0
    /\ winStart' = 0
    /\ tasks' = {}
    /\ questionsToAdd' = <<>>
    /\ submitted' = <<>>
    /\ windows' = [k \in 1..Len(files) |-> 0]
    /\ createCalls' = <<>>
    /\ addCalls' = <<>>
    /\ pageFailures' = 0
    /\ outOfOrder' = FALSE
    /\ cropsUsed' = {}
    /\ updates' = <<>>
    /\ UNCHANGED <<uiVars, detectVars, asideVars, globalTests, remoteTests, now>>

(***************************************************************************)
(* Counting pass: one file read per step; a failed read is logged only.    *)
(* After the last file the conversion loop sets the status of the first    *)
(* file and awaits its read.                                               *)
(***************************************************************************)
AfterCount(counts) ==
    IF cnt < Len(runFiles)
    THEN /\ cnt' = cnt + 1
         /\ UNCHANGED <<pc, processStatus, docIdx>>
    ELSE /\ cnt' = cnt
         /\ pc' = "reading"
         /\ docIdx' = 1
         /\ processStatus' = StatusProcessing(counts, runFiles[1])

CountReadOk ==
    /\ pc = "counting"
    /\ LET f == runFiles[cnt]
           pagesInFile == PagesInFile(NumPages(f))
           counts == MapSet(filePageCounts, FileName(f), pagesInFile)
       IN /\ filePageCounts' = counts
          /\ totalPagesToProcess' = totalPagesToProcess + pagesInFile
          /\ counted' = counted \cup {cnt}
          /\ AfterCount(counts)
    /\ UNCHANGED <<uiVars, detectVars, asideVars, isProcessing, processProgress, runFiles, runTests, runCropConfig,
                   countFailed, globalProcessedCount, pageVars, storeVars, now,
                   lastCall, convFailedAt>>

CountReadFail ==
    /\ pc = "counting"
    /\ countFailed' = TRUE
    /\ AfterCount(filePageCounts)
    /\ UNCHANGED <<uiVars, detectVars, asideVars, isProcessing, processProgress, runFiles, runTests, runCropConfig,
                   filePageCounts, totalPagesToProcess, counted,
                   globalProcessedCount, pageVars, storeVars, now, lastCall,
                   convFailedAt>>

(***************************************************************************)
(* Conversion loop.                                                        *)
(***************************************************************************)
Range(seq) == {seq[j] : j \in 1..Len(seq)}
Question(k, p) == [doc |-> k, page |-> p]
Task(k, p, st) == [doc |-> k, page |-> p, state |-> st]
Pending == {t \in tasks : t.state = "pending"}

\* processSinglePage: what its promise settles to (try/catch returns null)
PageOutcome_Throws(ok) == IF ok THEN "ok" ELSE "rejected"
PageOutcome(ok) == IF ok THEN "ok" ELSE "null"

\* Promise.all over the chunk: resolved when every promise has settled
WindowSettled_Any(ts, k, chunk) ==
    \E p \in Range(chunk) : \E t \in ts : t.doc = k /\ t.page = p /\ t.state # "pending"
WindowSettled(ts, k, chunk) ==
    \A p \in Range(chunk) : \A t \in ts : (t.doc = k /\ t.page = p) => t.state # "pending"
\* Promise.all over the chunk: rejected as soon as one promise rejects
WindowRejected(ts, k, chunk) ==
    \E p \in Range(chunk) : \E t \in ts : t.doc = k /\ t.page = p /\ t.state = "rejected"

\* results.forEach(res => { if (res) questionsToAdd.push(res) })
RECURSIVE Collect_Unshift(_, _, _)
Collect_Unshift(ts, k, chunk) ==
    IF chunk = <<>> THEN <<>>
    ELSE LET p == Head(chunk)
             rest == Collect_Unshift(ts, k, Tail(chunk))
         IN IF Task(k, p, "ok") \in ts THEN rest \o <<Question(k, p)>> ELSE rest
RECURSIVE Collect(_, _, _)
Collect(ts, k, chunk) ==
    IF chunk = <<>> THEN <<>>
    ELSE LET p == Head(chunk)
             rest == Collect(ts, k, Tail(chunk))
         IN IF Task(k, p, "ok") \in ts THEN <<Question(k, p)>> \o rest ELSE rest

\* the window loop dispatches the chunk starting at i
StartWindow(k, pageIndices, i) ==
    LET chunk == Chunk(pageIndices, i)
    IN /\ tasks' = tasks \cup {Task(k, p, "pending") : p \in Range(chunk)}
       /\ submitted' = submitted \o [j \in 1..Len(chunk) |-> <<k, chunk[j]>>]
       /\ windows' = [windows EXCEPT ![k] = @ + 1]
       /\ winStart' = i
       /\ pc' = "window"
       /\ UNCHANGED <<docIdx, processStatus, storeVars>>

\* after the window loop: save the document's test, then the next file or the end
FinishDoc(k, qs, prog) ==
    LET f == runFiles[k]
        testName == TestName(FileName(f))
        newTest == NewTest(testName, FileName(f))
        testId == IF isDevUser THEN newTest.id ELSE -1
        afterAdd == AddTest(runTests, newTest)
        afterQuestions == AddQuestionsToTest(runTests, testId, qs)
    IN /\ IF Len(qs) > 0
          THEN /\ globalTests' = afterQuestions
               \* the second setDoc overwrites what the first one wrote
               /\ remoteTests' = afterQuestions
               /\ createCalls' = Append(createCalls,
                      [doc |-> k, name |-> testName, id |-> testId, saved |-> afterAdd])
               /\ addCalls' = Append(addCalls,
                      [doc |-> k, testId |-> testId, questions |-> qs])
          ELSE UNCHANGED storeVars
       /\ IF k < Len(runFiles)
          THEN /\ pc' = "reading"
               /\ docIdx' = k + 1
               /\ processStatus' = StatusProcessing(filePageCounts, runFiles[k + 1])
               /\ processProgress' = prog
          ELSE /\ pc' = "success"
               /\ docIdx' = k
               /\ processStatus' = StatusSuccess
               /\ processProgress' = 100
       /\ UNCHANGED <<tasks, submitted, windows, winStart>>

\* the catch block of processAndSaveTests
CatchError_NoStatus ==
    /\ processStatus' = processStatus
    /\ isProcessing' = FALSE
    /\ pc' = "idle"
CatchError ==
    /\ processStatus' = StatusError
    /\ isProcessing' = FALSE
    /\ pc' = "idle"

ReadDocOk ==
    /\ pc = "reading"
    /\ LET k == docIdx
           numPages == NumPages(runFiles[k])
           pageIndices == PageIndices(numPages)
       IN /\ pdfPages' = numPages
          /\ questionsToAdd' = <<>>
          /\ IF 0 < Len(pageIndices)
             THEN StartWindow(k, pageIndices, 0) /\ UNCHANGED processProgress
             ELSE FinishDoc(k, <<>>, processProgress)
    /\ UNCHANGED <<uiVars, detectVars, asideVars, isProcessing, runFiles, runTests, runCropConfig, countVars,
                   globalProcessedCount, pageFailures, outOfOrder, cropsUsed, updates,
                   now, lastCall, convFailedAt>>

ReadDocFail ==
    /\ pc = "reading"
    /\ CatchError
    /\ convFailedAt' = docIdx
    /\ UNCHANGED <<uiVars, detectVars, asideVars, processProgress, runFiles, runTests, runCropConfig, countVars,
                   globalProcessedCount, docIdx, pageVars, storeVars, now, lastCall>>

\* `cropConfig` inside processSinglePage: the constant of the render whose
\* processAndSaveTests is running
ClosureCropConfig_Current == cropConfig
ClosureCropConfig == runCropConfig
\* the getImageData calls of processSinglePage with cropConfig.questionBox and
\* cropConfig.answerBox; `state` is the cropConfig state at that moment
Cropped(doc, page, config) ==
    [doc |-> doc, page |-> page, questionBox |-> config.questionBox,
     answerBox |-> config.answerBox, state |-> cropConfig]

Settle(t, ok) ==
    /\ tasks' = (tasks \ {t}) \cup {Task(t.doc, t.page, PageOutcome(ok))}
    /\ outOfOrder' = (outOfOrder \/ \E u \in Pending : u.doc = t.doc /\ u.page < t.page)
    /\ cropsUsed' = (IF ok THEN cropsUsed \cup {Cropped(t.doc, t.page, ClosureCropConfig)}
                           ELSE cropsUsed)
    /\ UNCHANGED <<uiVars, detectVars, asideVars, isProcessing, processStatus, processProgress, pc,
                   runFiles, runTests, runCropConfig, countVars, globalProcessedCount, docIdx,
                   submitted, windows, winStart, pdfPages, questionsToAdd, updates,
                   storeVars, now, lastCall, convFailedAt>>

PageDone(t) ==
    /\ t \in Pending
    /\ Settle(t, TRUE)
    /\ UNCHANGED pageFailures

PageFailed(t) ==
    /\ t \in Pending
    /\ pageFailures < MaxPageFailures
    /\ Settle(t, FALSE)
    /\ pageFailures' = pageFailures + 1

\* continuation of `await Promise.all(...)`
AwaitWindow ==
    /\ pc = "window"
    /\ LET k == docIdx
           pageIndices == PageIndices(pdfPages)
           chunk == Chunk(pageIndices, winStart)
           qs == questionsToAdd \o Collect(tasks, k, chunk)
           count == globalProcessedCount + Len(chunk)
           report == (count % 5 = 0 \/ count = totalPagesToProcess)
           prog == IF report
                   THEN RoundPercent(count, totalPagesToProcess)
                   ELSE processProgress
           i == winStart + CONCURRENCY_LIMIT
       IN /\ WindowRejected(tasks, k, chunk) \/ WindowSettled(tasks, k, chunk)
          /\ IF WindowRejected(tasks, k, chunk)
             THEN /\ CatchError
                  /\ UNCHANGED <<processProgress, globalProcessedCount, docIdx,
                                 tasks, submitted, windows, winStart,
                                 questionsToAdd, storeVars, updates>>
             ELSE /\ questionsToAdd' = qs
                  /\ updates' = Append(updates, [count |-> count, reported |-> report,
                                                 value |-> prog])
                  /\ globalProcessedCount' = count
                  /\ UNCHANGED isProcessing
                  /\ IF i < Len(pageIndices)
                     THEN StartWindow(k, pageIndices, i) /\ processProgress' = prog
                     ELSE FinishDoc(k, qs, prog)
    /\ UNCHANGED <<uiVars, detectVars, asideVars, runFiles, runTests, runCropConfig, countVars, pdfPages,
                   pageFailures, outOfOrder, cropsUsed, now, lastCall, convFailedAt>>

\* setTimeout(..., 2000) after a successful run
SuccessTimeout_KeepsFlag ==
    /\ pc = "success"
    /\ files' = <<>>
    /\ processStatus' = StatusIdle
    /\ processProgress' = 0
    /\ isProcessing' = isProcessing
    /\ pc' = "idle"
    /\ UNCHANGED <<calibVars, detectVars, asideVars, runFiles, runTests, runCropConfig, countVars, globalProcessedCount,
                   docIdx, pageVars, storeVars, now, lastCall, convFailedAt>>
SuccessTimeout ==
    /\ pc = "success"
    /\ files' = <<>>
    /\ processStatus' = StatusIdle
    /\ processProgress' = 0
    /\ isProcessing' = FALSE
    /\ pc' = "idle"
    /\ UNCHANGED <<calibVars, detectVars, asideVars, runFiles, runTests, runCropConfig, countVars, globalProcessedCount,
                   docIdx, pageVars, storeVars, now, lastCall, convFailedAt>>

Next ==
    \/ \E f \in FileIds : HandleFilesChange(f)
    \/ \E index \in 1..MaxFiles + 1 : RemoveFile(index)
    \/ Tick
    \/ OnSnapshot
    \/ ProcessRejected
    \/ ProcessNoFiles
    \/ ProcessStart
    \/ CountReadOk
    \/ CountReadFail
    \/ ReadDocOk
    \/ ReadDocFail
    \/ \E t \in tasks : PageDone(t)
    \/ \E t \in tasks : PageFailed(t)
    \/ AwaitWindow
    \/ SuccessTimeout

Spec == Init /\ [][Next]_vars

\* every promise the run awaits settles, and the timer fires: the reads of
\* the counting pass and of the conversion loop, the page tasks, Promise.all
\* and the setTimeout callback
Fairness ==
    /\ WF_vars(CountReadOk \/ CountReadFail)
    /\ WF_vars(ReadDocOk \/ ReadDocFail)
    /\ WF_vars(\E t \in tasks : PageDone(t) \/ PageFailed(t))
    /\ WF_vars(AwaitWindow)
    /\ WF_vars(SuccessTimeout)
\* the batch without the clock, over a two-window document, a one-window
\* document and a document with a cover page only
NextLive ==
    \/ \E f \in {1, 3, 4} : HandleFilesChange(f)
    \/ \E index \in 1..MaxFiles + 1 : RemoveFile(index)
    \/ OnSnapshot
    \/ ProcessRejected
    \/ ProcessNoFiles
    \/ ProcessStart
    \/ CountReadOk
    \/ CountReadFail
    \/ ReadDocOk
    \/ ReadDocFail
    \/ \E t \in tasks : PageDone(t)
    \/ \E t \in tasks : PageFailed(t)
    \/ AwaitWindow
    \/ SuccessTimeout
LiveSpec == Init /\ [][NextLive]_vars /\ Fairness

(***************************************************************************)
(* processSinglePage, followed for one page of a run: the page is rendered *)
(* and cropped, the text layer is tried, then OCR if the text layer gave   *)
(* no letter.                                                              *)
(***************************************************************************)

RECURSIVE Concat(_)
Concat(pieces) == IF pieces = <<>> THEN <<>> ELSE Head(pieces) \o Concat(Tail(pieces))
\* the strings made of at most n of the pieces
TextsOf(pieces, n) ==
    {Concat(ps) : ps \in UNION {[1..k -> pieces] : k \in 0..n}}
\* nine characters that are neither removed nor an answer letter
Filler == [i \in 1..9 |-> "0"]
PagePieces == {markers[4], <<"BEH">>, <<"J">>, <<"c">>, <<":">>, Filler}
PageInputs ==
    {[threw |-> TRUE, text |-> <<>>]} \cup
    {[threw |-> FALSE, text |-> t] : t \in TextsOf(PagePieces, MaxPageText)}

otherVars == <<asideVars, calibVars, files, isProcessing, processStatus, processProgress, pc,
               runFiles, runTests, runCropConfig, countVars, globalProcessedCount, docIdx,
               pageVars, storeVars, now, lastCall, convFailedAt>>
extractVars == <<text, extractPc, extracted>>

\* correctAnswer: detectedAnswer || LetterAlef
OrElse(v, default) == IF Falsy(v) THEN Some(default) ELSE v
PageQuestion(answer) ==
    [questionText |-> "choose the right answer",
     options |-> options,
     correctAnswer |-> OrElse(answer, LetterAlef)]

\* if (!detectedAnswer)
NeedsOcr_Always(answer) == TRUE
NeedsOcr(answer) == Falsy(answer)

InitPage ==
    /\ storedCropConfig =
          Some(JsonStringify([questionBox |-> Some(RefBox), answerBox |-> Some(RefBox)]))
    /\ Mounted
    /\ remoteTests = <<>>
    /\ textLayer \in PageInputs
    /\ ocr \in PageInputs
    /\ pagePc = "render"
    /\ pdfTextAnswer = Null
    /\ detectedAnswer = Null
    /\ ocrCalls = 0
    /\ pageResult = Null
    /\ text = <<>>
    /\ extractPc = "idle"
    /\ extracted = Null
    /\ AsideIdle

\* getPage, render and the two crops went through
PageRendered ==
    /\ pagePc = "render"
    /\ pagePc' = "pdfText"
    /\ UNCHANGED <<otherVars, extractVars, textLayer, ocr, pdfTextAnswer,
                   detectedAnswer, ocrCalls, pageResult>>

\* getPage or render threw, or there is no 2d context
PageRenderFailed ==
    /\ pagePc = "render"
    /\ pagePc' = "returned"
    /\ pageResult' = Null
    /\ UNCHANGED <<otherVars, extractVars, textLayer, ocr, pdfTextAnswer,
                   detectedAnswer, ocrCalls>>

\* continuation of `await detectAnswerFromPdfText(...)`
PdfTextDetected ==
    /\ pagePc = "pdfText"
    /\ LET answer == detectAnswerFromPdfText(textLayer)
       IN /\ pdfTextAnswer' = answer
          /\ detectedAnswer' = answer
          /\ IF NeedsOcr(answer)
             THEN /\ pagePc' = "ocr"
                  /\ ocrCalls' = ocrCalls + 1
                  /\ UNCHANGED pageResult
             ELSE /\ pagePc' = "returned"
                  /\ pageResult' = Some(PageQuestion(answer))
                  /\ UNCHANGED ocrCalls
    /\ UNCHANGED <<otherVars, extractVars, textLayer, ocr>>

\* continuation of `await detectAnswerFromImage(...)`
ImageDetected ==
    /\ pagePc = "ocr"
    /\ LET answer == detectAnswerFromImage(ocr)
       IN /\ detectedAnswer' = answer
          /\ pageResult' = Some(PageQuestion(answer))
    /\ pagePc' = "returned"
    /\ UNCHANGED <<otherVars, extractVars, textLayer, ocr, pdfTextAnswer, ocrCalls>>

NextPage ==
    \/ PageRendered
    \/ PageRenderFailed
    \/ PdfTextDetected
    \/ ImageDetected

SpecPage == InitPage /\ [][NextPage]_vars

(***************************************************************************)
(* extractAnswerFromText, applied to one string.                           *)
(***************************************************************************)
ExtractPieces ==
    {markers[n] : n \in 1..Len(markers)} \cup
    {<<c>> : c \in {"ALEF_HAMZA_ABOVE", "ALEF", "A", "a", "BEH", "B", "b",
                    "JEEM", "C", "c", "J", "DAL", "D", "d", ":", " "}} \cup
    {Filler}

InitExtract ==
    /\ storedCropConfig = Null
    /\ Mounted
    /\ remoteTests = <<>>
    /\ textLayer = NoInput
    /\ ocr = NoInput
    /\ pagePc = "idle"
    /\ pdfTextAnswer = Null
    /\ detectedAnswer = Null
    /\ ocrCalls = 0
    /\ pageResult = Null
    /\ text \in TextsOf(ExtractPieces, MaxTextPieces)
    /\ extractPc = "called"
    /\ extracted = Null
    /\ AsideIdle

ExtractReturned ==
    /\ extractPc = "called"
    /\ extracted' = extractAnswerFromText(text)
    /\ extractPc' = "returned"
    /\ UNCHANGED <<otherVars, text, textLayer, ocr, pagePc, pdfTextAnswer,
                   detectedAnswer, ocrCalls, pageResult>>

NextExtract == ExtractReturned

SpecExtract == InitExtract /\ [][NextExtract]_vars

(***************************************************************************)
(* Calibration: the operator loads a reference page, picks the kind of box *)
(* and draws it on the canvas with a mouse drag.                           *)
(***************************************************************************)
\* canvas coordinates of a mouse event: (e.clientX - rect.left) * scaleX
CanvasCoords == {0, 10, 30, 31}

Abs(a) == IF a >= 0 THEN a ELSE -a
Committable_AtLeast(width, height) == width >= 20 /\ height >= 20
Committable(width, height) == width > 20 /\ height > 20

calibRest == <<files, isProcessing, processStatus, processProgress, pc, runFiles,
               runTests, runCropConfig, countVars, globalProcessedCount, docIdx, pageVars,
               storeVars, now, lastCall, convFailedAt, detectVars, asideVars>>

saveCropConfig_StateOnly(config) ==
    /\ cropConfig' = config
    /\ storedCropConfig' = storedCropConfig
saveCropConfig(config) ==
    /\ cropConfig' = config
    /\ storedCropConfig' = Some(JsonStringify(config))

InitCalib ==
    /\ storedCropConfig \in StoredConfigs
    /\ Mounted
    /\ remoteTests = <<>>
    /\ DetectIdle
    /\ AsideIdle

\* the page rendered by handleReferenceFileChange becomes the reference image
HandleReferenceFileChange ==
    /\ referenceImage' = TRUE
    /\ lastCalib' = [event |-> "reference"]
    /\ UNCHANGED <<cropConfig, currentCropMode, isDrawing, startPos, storedCropConfig,
                   calibRest>>

\* the two crop-mode buttons, disabled without a reference image
SetCurrentCropMode(kind) ==
    /\ referenceImage
    /\ currentCropMode' = kind
    /\ lastCalib' = [event |-> "mode"]
    /\ UNCHANGED <<cropConfig, isDrawing, startPos, storedCropConfig, referenceImage,
                   calibRest>>

HandleMouseDown(currentX, currentY) ==
    /\ referenceImage
    /\ currentCropMode # "none"
    /\ startPos' = Some([x |-> currentX, y |-> currentY])
    /\ isDrawing' = TRUE
    /\ lastCalib' = [event |-> "down"]
    /\ UNCHANGED <<cropConfig, currentCropMode, storedCropConfig, referenceImage,
                   calibRest>>

HandleMouseUp(currentX, currentY) ==
    /\ referenceImage
    /\ ~(~isDrawing \/ startPos = Null \/ currentCropMode = "none")
    /\ LET width == Abs(currentX - startPos[1].x)
           height == Abs(currentY - startPos[1].y)
           x == Min(currentX, startPos[1].x)
           y == Min(currentY, startPos[1].y)
           newBox == [x |-> x, y |-> y, width |-> width, height |-> height]
           newConfig == IF currentCropMode = "question"
                        THEN [cropConfig EXCEPT !.questionBox = Some(newBox)]
                        ELSE [cropConfig EXCEPT !.answerBox = Some(newBox)]
       IN IF Committable(width, height)
          THEN saveCropConfig(newConfig)
          ELSE UNCHANGED <<cropConfig, storedCropConfig>>
    /\ isDrawing' = FALSE
    /\ startPos' = Null
    /\ currentCropMode' = "none"
    /\ lastCalib' = [event |-> "up", x |-> currentX, y |-> currentY,
                     from |-> startPos[1], mode |-> currentCropMode]
    /\ UNCHANGED <<referenceImage, calibRest>>

\* the page is loaded again: the component state is initialized anew
Mount ==
    /\ ~isProcessing
    /\ cropConfig' = LoadCropConfig(storedCropConfig)
    /\ currentCropMode' = "none"
    /\ isDrawing' = FALSE
    /\ startPos' = Null
    /\ referenceImage' = FALSE
    /\ lastCalib' = [event |-> "mount"]
    /\ files' = <<>>
    /\ processStatus' = StatusIdle
    /\ processProgress' = 0
    /\ UNCHANGED <<storedCropConfig, isProcessing, pc, runFiles, runTests, runCropConfig, countVars,
                   globalProcessedCount, docIdx, pageVars, storeVars, now, lastCall,
                   convFailedAt, detectVars, asideVars>>

NextCalib ==
    \/ HandleReferenceFileChange
    \/ \E kind \in {"question", "answer"} : SetCurrentCropMode(kind)
    \/ \E x, y \in CanvasCoords : HandleMouseDown(x, y)
    \/ \E x, y \in CanvasCoords : HandleMouseUp(x, y)
    \/ Mount

SpecCalib == InitCalib /\ [][NextCalib]_vars

(***************************************************************************)
(* normalizeAnswer, applied to one character, called more than once.       *)
(***************************************************************************)
\* every variable of the component, of processSinglePage and of
\* extractAnswerFromText
baseVars == <<calibVars, files, isProcessing, processStatus, processProgress, pc,
              runFiles, runTests, runCropConfig, countVars, globalProcessedCount, docIdx,
              pageVars, storeVars, now, lastCall, convFailedAt, detectVars>>

NormalizeChars ==
    {"ALEF_HAMZA_ABOVE", "ALEF", "A", "a", "BEH", "B", "b", "JEEM", "C", "c", "J",
     "DAL", "D", "d", "ALEF_HAMZA_BELOW", "LAM", "SAD", "HAH", "YEH", "TEH_MARBUTA",
     "HEH", "WAW", "j", "E", "e", "x", "X", "0", "1", ":", "_", "-", ".", "(", ")",
     "ZWSP", "ZWNJ", "LRM", "RLM"}

InitNormalize ==
    /\ storedCropConfig = Null
    /\ Mounted
    /\ remoteTests = <<>>
    /\ DetectIdle
    /\ normArg \in {<<c>> : c \in NormalizeChars}
    /\ normResults = <<>>
    /\ PixelIdle
    /\ SortIdle
    /\ UserIdle

NormalizeReturned ==
    /\ normArg # <<>>
    /\ Len(normResults) < MaxNormCalls
    /\ normResults' = Append(normResults, normalizeAnswer(normArg))
    /\ UNCHANGED <<baseVars, normArg, pixelVars, sortVars, userVars>>

NextNormalize == NormalizeReturned

SpecNormalize == InitNormalize /\ [][NextNormalize]_vars

(***************************************************************************)
(* The thresholding loop of preprocessImage over the data of a one-pixel   *)
(* image, run again over its own output.  The weighted sum is a double;    *)
(* it is kept here in ten-thousandths, with the colours whose double       *)
(* value differs from the exact sum at the threshold.                      *)
(***************************************************************************)
threshold == 140
\* 10000 * (0.2126 * r + 0.7152 * g + 0.0722 * b), exact
Gray10k(r, g, b) == 2126 * r + 7152 * g + 722 * b
\* the colours for which the double 0.2126 * r + 0.7152 * g + 0.0722 * b is
\* 139.99999999999997 while the exact sum is 140; for every other colour of
\* the 256^3 the double and the exact sum are on the same side of 140
RoundsBelow == {<<58, 167, 114>>, <<75, 157, 163>>}
\* gray < threshold
BelowThreshold_OrEqual(r, g, b) == Gray10k(r, g, b) <= threshold * 10000
BelowThreshold(r, g, b) ==
    \/ Gray10k(r, g, b) < threshold * 10000
    \/ <<r, g, b>> \in RoundsBelow
\* the body of the loop for one pixel: data[i + 3] is not written
ThresholdPixel(px) ==
    LET val == IF BelowThreshold(px.r, px.g, px.b) THEN 0 ELSE 255
    IN [r |-> val, g |-> val, b |-> val, a |-> px.a]
ThresholdLoop(data) == [i \in 1..Len(data) |-> ThresholdPixel(data[i])]

ChannelLevels == {0, 58, 75, 114, 139, 140, 141, 157, 163, 167, 255}
AlphaLevels == {0, 255}

InitThreshold ==
    /\ storedCropConfig = Null
    /\ Mounted
    /\ remoteTests = <<>>
    /\ DetectIdle
    /\ NormIdle
    /\ SortIdle
    /\ UserIdle
    /\ srcData \in {<<[r |-> r, g |-> g, b |-> b, a |-> a]>> :
                      r \in ChannelLevels, g \in ChannelLevels, b \in ChannelLevels,
                      a \in AlphaLevels}
    /\ passResults = <<>>

ThresholdApplied ==
    /\ srcData # <<>>
    /\ Len(passResults) < MaxPasses
    /\ passResults' = Append(passResults,
                             ThresholdLoop(IF passResults = <<>> THEN srcData
                                           ELSE passResults[Len(passResults)]))
    /\ UNCHANGED <<baseVars, normVars, sortVars, userVars, srcData>>

NextThreshold == ThresholdApplied

SpecThreshold == InitThreshold /\ [][NextThreshold]_vars

(***************************************************************************)
(* The sort of the kept tokens in detectAnswerFromPdfText and the join.    *)
(* Array.prototype.sort with a comparator that is not consistent on the    *)
(* array gives an implementation-defined order: any permutation.           *)
(***************************************************************************)
\* (a, b) => { if (Math.abs(a.y - b.y) > 5) return a.y - b.y; return a.x - b.x; }
compareFn_RowsOnly(a, b) == a.y - b.y
compareFn(a, b) == IF Abs(a.y - b.y) > 5 THEN a.y - b.y ELSE a.x - b.x

\* the comparator orders the items: equal-comparing items form classes and
\* the classes are totally ordered
ConsistentComparator(items) ==
    \A i, j, k \in 1..Len(items) :
        LET a == items[i]
            b == items[j]
            c == items[k]
        IN /\ (compareFn(a, b) = 0 /\ compareFn(b, c) = 0) => compareFn(a, c) = 0
           /\ (compareFn(a, b) < 0 /\ compareFn(b, c) < 0) => compareFn(a, c) < 0
           /\ (compareFn(a, b) < 0 /\ compareFn(b, c) = 0) => compareFn(a, c) < 0
           /\ (compareFn(a, b) = 0 /\ compareFn(b, c) < 0) => compareFn(a, c) < 0

IndexOrders(n) == {f \in [1..n -> 1..n] : \A i, j \in 1..n : i # j => f[i] # f[j]}
\* the sort is stable: items that compare equal keep their order
StableSorted(items, f) ==
    \A i, j \in 1..Len(items) :
        i < j => \/ compareFn(items[f[i]], items[f[j]]) < 0
                 \/ (compareFn(items[f[i]], items[f[j]]) = 0 /\ f[i] < f[j])
\* what foundItems.sort(compareFn) can leave in the array
SortOutcomes(items) ==
    {[i \in 1..Len(items) |-> items[f[i]]] :
        f \in {g \in IndexOrders(Len(items)) :
                  ConsistentComparator(items) => StableSorted(items, g)}}

\* foundItems.map(i => i.str).join('')
RECURSIVE JoinStr(_)
JoinStr(items) == IF items = <<>> THEN <<>> ELSE Head(items).str \o JoinStr(Tail(items))

\* viewport points [vx, vy] inside the padded answer box
Positions == {[x |-> x, y |-> y] : x \in {10, 20, 30}, y \in {0, 4, 8}}
\* the n-th kept token has the n-th of these strings as its item.str
TokenLists ==
    UNION {{[i \in 1..n |-> [str |-> <<<<"p", "q", "r", "s">>[i]>>,
                             x |-> at[i].x, y |-> at[i].y]] :
              at \in [1..n -> Positions]} : n \in 0..MaxTokens}

InitSort ==
    /\ storedCropConfig = Null
    /\ Mounted
    /\ remoteTests = <<>>
    /\ DetectIdle
    /\ NormIdle
    /\ PixelIdle
    /\ UserIdle
    /\ foundItems \in TokenLists
    /\ sortedItems = Null
    /\ rawText = Null

ItemsSorted ==
    /\ sortedItems = Null
    /\ foundItems # <<>>
    /\ \E outcome \in SortOutcomes(foundItems) :
          /\ sortedItems' = Some(outcome)
          /\ rawText' = Some(JoinStr(outcome))
    /\ UNCHANGED <<baseVars, normVars, pixelVars, userVars, foundItems>>

NextSort == ItemsSorted

SpecSort == InitSort /\ [][NextSort]_vars

(***************************************************************************)
(* Calibration while a batch is running: the header button that opens the  *)
(* calibration view is not disabled by isProcessing, and the canvas        *)
(* handlers do not look at it.                                             *)
(***************************************************************************)
InitRecal ==
    /\ storedCropConfig =
          Some(JsonStringify([questionBox |-> Some(RefBox), answerBox |-> Some(RefBox)]))
    /\ Mounted
    /\ remoteTests = <<>>
    /\ DetectIdle
    /\ AsideIdle

NextRecal ==
    \/ \E f \in {3, 4} : HandleFilesChange(f)
    \/ ProcessStart
    \/ CountReadOk
    \/ CountReadFail
    \/ ReadDocOk
    \/ ReadDocFail
    \/ \E t \in tasks : PageDone(t)
    \/ \E t \in tasks : PageFailed(t)
    \/ AwaitWindow
    \/ SuccessTimeout
    \/ HandleReferenceFileChange
    \/ \E kind \in {"question", "answer"} : SetCurrentCropMode(kind)
    \/ HandleMouseDown(0, 0)
    \/ HandleMouseUp(31, 31)

SpecRecal == InitRecal /\ [][NextRecal]_vars

(***************************************************************************)
(* The user data (useAppData): handleFinishTest hands the attempt to       *)
(* addAttemptToHistory, which calls addQuestionsToReview and then saves    *)
(* the history.  Each saveUserSpecificData copies the `userData` of the    *)
(* render its closure belongs to, applies the updater, sets the state and  *)
(* writes the document with merge.                                         *)
(***************************************************************************)
REVIEW_TEST_MAX_QUESTIONS == 75

\* the questions of the attempt that were not answered correctly
QuestionsToReview(attempt) ==
    LET isCorrect(q) ==
            \E j \in 1..Len(attempt.answers) :
                /\ attempt.answers[j].questionId = q.id
                /\ ~Falsy(Some(attempt.answers[j].answer))
                /\ Trim(attempt.answers[j].answer) = Trim(q.correctAnswer)
        userAnswer(q) ==
            IF \E j \in 1..Len(attempt.answers) : attempt.answers[j].questionId = q.id
            THEN Some(attempt.answers[CHOOSE j \in 1..Len(attempt.answers) :
                                         attempt.answers[j].questionId = q.id].answer)
            ELSE Null
        wrong == SelectSeq(attempt.questions, LAMBDA q : ~isCorrect(q))
    IN [i \in 1..Len(wrong) |-> [originalId |-> wrong[i].id,
                                 userAnswer |-> userAnswer(wrong[i])]]

\* the for loop of addQuestionsToReview's updater over the review tests of
\* the section
RECURSIVE PushToReview(_, _)
PushToReview(tests, questions) ==
    IF questions = <<>> THEN tests
    ELSE LET fresh == tests = <<>>
                      \/ Len(tests[Len(tests)].questions) >= REVIEW_TEST_MAX_QUESTIONS
             target == IF fresh
                       THEN Append(tests, [id |-> <<"review_", "quantitative",
                                                    Len(tests) + 1, now>>,
                                           questions |-> <<>>])
                       ELSE tests
         IN PushToReview([target EXCEPT ![Len(target)].questions =
                                            Append(@, Head(questions))],
                         Tail(questions))

\* addQuestionsToReview's updater
ReviewDraft(draft, questions) ==
    LET existingOriginalIds ==
            UNION {{draft.reviewTests[t].questions[j].originalId :
                       j \in 1..Len(draft.reviewTests[t].questions)} :
                   t \in 1..Len(draft.reviewTests)}
        uniqueQuestionsToAdd ==
            SelectSeq(questions, LAMBDA q : q.originalId \notin existingOriginalIds)
    IN IF uniqueQuestionsToAdd = <<>> THEN draft
       ELSE [draft EXCEPT
                !.reviewTests = PushToReview(@, uniqueQuestionsToAdd),
                !.reviewedQuestionIds =
                    @ \cup {uniqueQuestionsToAdd[j].originalId :
                               j \in 1..Len(uniqueQuestionsToAdd)}]

\* setDoc(doc(db, 'userData', userId), newData, {merge: true}): the arrays of
\* newData replace those of the document, the keys of the map
\* reviewedQuestionIds are added to it; a write can fail (logged)
SetDocMerge(document, newData, written) ==
    IF ~written THEN document
    ELSE Some([history |-> newData.history,
               reviewTests |-> newData.reviewTests,
               reviewedQuestionIds |->
                   (IF document = Null THEN {} ELSE document[1].reviewedQuestionIds)
                       \cup newData.reviewedQuestionIds])

\* the tests a user can finish: one or two questions with correctAnswer beh,
\* each unanswered or answered beh, beh with a space, or dal
TestQuestions ==
    { <<[id |-> "q1", correctAnswer |-> <<"BEH">>]>>,
      <<[id |-> "q1", correctAnswer |-> <<"BEH">>],
        [id |-> "q2", correctAnswer |-> <<"BEH">>]>> }
Attempts ==
    UNION {{[testId |-> testId, questions |-> qs,
             answers |-> SelectSeq([i \in 1..Len(qs) |->
                                       [questionId |-> qs[i].id, answer |-> given[i]]],
                                   LAMBDA a : a.answer # <<"none">>)] :
               given \in [1..Len(qs) -> {<<"none">>, <<"BEH">>, <<"BEH", " ">>, <<"DAL">>}],
               testId \in {<<"test_", 1>>, <<"review_", "quantitative", 1, 0>>}} :
           qs \in TestQuestions}

\* a user whose document, if there is one, has been loaded by onSnapshot
InitAttempt ==
    /\ storedCropConfig = Null
    /\ Mounted
    /\ remoteTests = <<>>
    /\ DetectIdle
    /\ NormIdle
    /\ PixelIdle
    /\ SortIdle
    /\ userKind \in {"regular", "preview", "dev"}
    /\ userData \in
          {[history |-> <<>>, reviewTests |-> <<>>, reviewedQuestionIds |-> {}],
           [history |-> <<>>,
            reviewTests |-> <<[id |-> <<"review_", "quantitative", 1, 0>>,
                               questions |-> <<[originalId |-> "q1",
                                                userAnswer |-> Null]>>]>>,
            reviewedQuestionIds |-> {"q1"}]}
    /\ remoteUserData = (IF userData.reviewTests = <<>> THEN Null ELSE Some(userData))
    /\ attemptLog = <<>>

\* handleFinishTest (the part that saves) and addAttemptToHistory
AddAttemptToHistory(attempt, written1, written2) ==
    /\ Len(attemptLog) < MaxAttempts
    /\ attemptLog' = Append(attemptLog, [attempt |-> attempt,
                                         written |-> written1 /\ written2])
    /\ IF \/ userKind = "dev"
          \* attempt.testId.includes('review_'): an id is its prefix followed
          \* by numbers and a section name
          \/ attempt.testId[1] = "review_"
       THEN UNCHANGED <<userData, remoteUserData>>
       ELSE LET newAttempt == [id |-> <<"attempt_", now>>, testId |-> attempt.testId,
                               questions |-> attempt.questions,
                               answers |-> attempt.answers]
                questionsToReview == QuestionsToReview(attempt)
                reviewed == ReviewDraft(userData, questionsToReview)
                withAttempt == [userData EXCEPT !.history = <<newAttempt>> \o @]
                afterReview == IF Len(questionsToReview) > 0
                               THEN SetDocMerge(remoteUserData, reviewed, written1)
                               ELSE remoteUserData
            IN /\ userData' = withAttempt
               /\ remoteUserData' = SetDocMerge(afterReview, withAttempt, written2)
    /\ UNCHANGED <<baseVars, normVars, pixelVars, sortVars, userKind>>

\* the snapshot listener of the user document
UserSnapshot ==
    /\ remoteUserData # Null
    /\ userData # remoteUserData[1]
    /\ userData' = remoteUserData[1]
    /\ UNCHANGED <<baseVars, normVars, pixelVars, sortVars, remoteUserData, userKind,
                   attemptLog>>

NextAttempt ==
    \/ \E attempt \in Attempts : \E written1, written2 \in BOOLEAN :
          AddAttemptToHistory(attempt, written1, written2)
    \/ UserSnapshot

SpecAttempt == InitAttempt /\ [][NextAttempt]_vars

(***************************************************************************)
(* Properties.                                                             *)
(***************************************************************************)
\* a run is in progress or has just ended (its history is still there)
RunKnown == runFiles # <<>>
\* file k of the run has been through the whole conversion loop body
Completed(k) == k < docIdx \/ (k = docIdx /\ pc = "success")
RunDocs == 1..Len(runFiles)
PagesOf(k) == NumPages(runFiles[k])
TasksOf(k) == {t \in tasks : t.doc = k}
OkPages(k) == {t.page : t \in {u \in TasksOf(k) : u.state = "ok"}}
SubmittedOf(k) == SelectSeq(submitted, LAMBDA e : e[1] = k)
CreateCallsOf(k) == SelectSeq(createCalls, LAMBDA c : c.doc = k)
AddCallsOf(k) == SelectSeq(addCalls, LAMBDA c : c.doc = k)
Ascending(qs) == \A i, j \in 1..Len(qs) : i < j => qs[i].page < qs[j].page
\* the ok pages of file k as Questions in page order
RECURSIVE InPageOrder(_, _)
InPageOrder(k, pages) ==
    IF pages = {} THEN <<>>
    ELSE LET p == CHOOSE x \in pages : \A y \in pages : x <= y
         IN <<Question(k, p)>> \o InPageOrder(k, pages \ {p})

\* C1: a call of processAndSaveTests made while questionBox or answerBox is
\* null starts nothing: no run, no document opened, no page processed, no
\* Test created, and the processing flag, status and progress stay as they were.
C1_RejectedWithoutCalibration ==
    [][(cropConfig.questionBox = Null \/ cropConfig.answerBox = Null)
        => /\ isProcessing' = isProcessing
           /\ processStatus' = processStatus
           /\ processProgress' = processProgress
           /\ pc' = "idle"
           /\ docIdx' = 0
           /\ tasks' = {}
           /\ submitted' = <<>>
           /\ createCalls' = <<>>
           /\ remoteTests' = remoteTests]_vars
C1_Witness ==
    /\ lastCall = "rejected"
    /\ cropConfig.questionBox # Null
    /\ cropConfig.answerBox = Null
    /\ Len(files) > 0

\* C2: at every moment at most 5 page tasks are in flight, all of them pages of
\* one document and of one window: no page of a later window or a later
\* document has been started while a page is still pending.
C2_BoundedFanOut ==
    /\ Cardinality(Pending) <= 5
    /\ \A t, u \in Pending : t.doc = u.doc
    /\ \A t \in Pending : \A u \in tasks :
          /\ u.doc <= t.doc
          /\ u.doc = t.doc => (u.page - 2) \div 5 <= (t.page - 2) \div 5
C2_Witness ==
    /\ Cardinality(Pending) = 5
    /\ pc = "window"

\* C3: the Questions collected for a document are in ascending page order,
\* within and across windows, whatever the completion order and the failures.
C3_PageOrder ==
    /\ Ascending(questionsToAdd)
    /\ \A n \in 1..Len(addCalls) : Ascending(addCalls[n].questions)
C3_Witness ==
    /\ outOfOrder
    /\ pageFailures > 0
    /\ \E n \in 1..Len(addCalls) :
          /\ Len(addCalls[n].questions) = 5
          /\ addCalls[n].questions[5].page = 7

\* C4: a failed page gives null for that page only: the run does not enter
\* the error status unless a document read failed, and every file that went
\* through the loop had all its pages 2..N processed and kept a Question for
\* every page that succeeded.
C4_PageFailureIsLocal ==
    /\ (RunKnown /\ processStatus.kind = "error") => convFailedAt # 0
    /\ \A k \in RunDocs : Completed(k) =>
          /\ \A p \in 2..PagesOf(k) :
                \E t \in TasksOf(k) : t.page = p /\ t.state \in {"ok", "null"}
          /\ IF OkPages(k) = {} THEN Len(AddCallsOf(k)) = 0
             ELSE /\ Len(AddCallsOf(k)) = 1
                  /\ AddCallsOf(k)[1].questions = InPageOrder(k, OkPages(k))
C4_Witness ==
    /\ pc = "success"
    /\ Len(runFiles) = 2
    /\ Task(1, 3, "null") \in tasks
    /\ Task(1, 7, "ok") \in tasks
    /\ Len(addCalls) = 2

Stored(store, c) ==
    \E j \in 1..Len(store) :
        /\ store[j].id = c.id
        /\ store[j].name = c.name
        /\ \E n \in 1..Len(addCalls) :
              /\ addCalls[n].doc = c.doc
              /\ store[j].questions = addCalls[n].questions

\* C6: when the run aborts on the read of document k, no page of document k
\* or later is processed, no Test is created for them, and every Test created
\* for an earlier document is still in the store with its Questions.
C6_AbortKeepsEarlierTests ==
    convFailedAt # 0 =>
        /\ \A t \in tasks : t.doc < convFailedAt
        /\ \A n \in 1..Len(createCalls) : createCalls[n].doc < convFailedAt
        /\ \A n \in 1..Len(createCalls) : Stored(globalTests, createCalls[n])

\* n is the text of fileName[1..stemLen] before its first '-', without the
\* spaces at both ends
IsNameOf(n, fileName, stemLen) ==
    \E cut \in 0..stemLen :
        /\ \A i \in 1..cut : fileName[i] # "-"
        /\ cut < stemLen => fileName[cut + 1] = "-"
        /\ \E a \in 1..cut + 1 : \E b \in 0..cut :
              /\ n = SubSeq(fileName, a, b)
              /\ \A i \in 1..cut : (i < a \/ i > b) => fileName[i] = " "
              /\ Len(n) > 0 => (n[1] # " " /\ n[Len(n)] # " ")
\* length of fileName without a trailing ".pdf" in any letter case
StemLen(fileName) ==
    LET L == Len(fileName)
    IN IF /\ L >= 4
          /\ fileName[L - 3] = "."
          /\ fileName[L - 2] \in {"p", "P"}
          /\ fileName[L - 1] \in {"d", "D"}
          /\ fileName[L] \in {"f", "F"}
       THEN L - 4 ELSE L
\* onAddTest and onAddQuestionsToTest are called once each for a file that
\* produced a Question and not at all for one that produced none
CalledOncePerDocument(k) ==
    IF OkPages(k) = {}
    THEN Len(CreateCallsOf(k)) = 0 /\ Len(AddCallsOf(k)) = 0
    ELSE /\ Len(CreateCallsOf(k)) = 1
         /\ Len(AddCallsOf(k)) = 1
         /\ AddCallsOf(k)[1].testId = CreateCallsOf(k)[1].id
         /\ AddCallsOf(k)[1].questions = InPageOrder(k, OkPages(k))

\* C7 as claimed: one create_test per document with a Question, none
\* otherwise; the Test is named by the text of the filename before the first
\* '-', trimmed; add_questions is called once with the returned id.
C7_NamedByFilenamePrefix ==
    \A k \in RunDocs : Completed(k) =>
        /\ CalledOncePerDocument(k)
        /\ PagesOf(k) <= 1 => Len(CreateCallsOf(k)) = 0
        /\ \A n \in 1..Len(CreateCallsOf(k)) :
              LET name == FileName(runFiles[k])
              IN IsNameOf(CreateCallsOf(k)[n].name, name, Len(name))
\* C7 amended: as claimed, except that the name is taken from the filename
\* without its trailing ".pdf" (any letter case).
C7_NamedByStemPrefix ==
    \A k \in RunDocs : Completed(k) =>
        /\ CalledOncePerDocument(k)
        /\ PagesOf(k) <= 1 => Len(CreateCallsOf(k)) = 0
        /\ \A n \in 1..Len(CreateCallsOf(k)) :
              LET name == FileName(runFiles[k])
              IN IsNameOf(CreateCallsOf(k)[n].name, name, StemLen(name))
C7_Witness ==
    /\ pc = "success"
    /\ runFiles = <<2, 4>>
    /\ Len(createCalls) = 1
    /\ createCalls[1].name = <<"b">>
    /\ Len(addCalls[1].questions) = 5

\* C8: after a completed run, a document of P >= 2 pages whose pages all
\* succeeded has exactly one Test in the store, holding its P-1 Questions in
\* page order.
C8_TestAndQuestionsStored ==
    pc = "success" =>
        \A k \in RunDocs :
            (PagesOf(k) >= 2 /\ OkPages(k) = 2..PagesOf(k)) =>
                Cardinality({j \in 1..Len(globalTests) :
                    /\ globalTests[j].sourceText = FileName(runFiles[k])
                    /\ globalTests[j].questions =
                          [i \in 1..(PagesOf(k) - 1) |-> Question(k, i + 1)]}) = 1

\* C9: a document of P pages has max(P-1, 0) pages submitted to
\* processSinglePage in ceil(max(P-1, 0) / 5) windows, and the counting pass
\* adds max(P-1, 0) for every file it could read.
RECURSIVE SumProcessable(_)
SumProcessable(ks) ==
    IF ks = {} THEN 0
    ELSE LET k == CHOOSE x \in ks : TRUE
         IN (IF PagesOf(k) >= 1 THEN PagesOf(k) - 1 ELSE 0) + SumProcessable(ks \ {k})
C9_ProcessableAndWindows ==
    /\ \A k \in RunDocs : Completed(k) =>
          LET processable == IF PagesOf(k) >= 1 THEN PagesOf(k) - 1 ELSE 0
          IN /\ Len(SubmittedOf(k)) = processable
             /\ windows[k] = (processable + 4) \div 5
             /\ PagesOf(k) = 1 => TasksOf(k) = {}
    /\ RunKnown => totalPagesToProcess = SumProcessable(counted)
C9_Witness ==
    /\ pc = "success"
    /\ runFiles = <<1, 5>>
    /\ windows = <<2, 0>>
    /\ Len(submitted) = 6
    /\ counted = {1, 2}

\* C10: page 1 is never passed to processSinglePage, each page 2..N is passed
\* exactly once, and each page gives at most one Question, so a document of
\* N >= 1 pages yields at most N-1 Questions.
C10_CoverSkippedEachPageOnce ==
    /\ \A n \in 1..Len(submitted) : submitted[n][2] # 1
    /\ \A n, m \in 1..Len(submitted) : submitted[n] = submitted[m] => n = m
    /\ \A k \in RunDocs : Completed(k) =>
          {SubmittedOf(k)[n][2] : n \in 1..Len(SubmittedOf(k))} = 2..PagesOf(k)
    /\ \A n \in 1..Len(addCalls) :
          LET qs == addCalls[n].questions
          IN /\ \A i, j \in 1..Len(qs) : qs[i] = qs[j] => i = j
             /\ \A i \in 1..Len(qs) : <<qs[i].doc, qs[i].page>> \in Range(submitted)
             /\ \A i \in 1..Len(qs) : qs[i].doc = addCalls[n].doc
             /\ PagesOf(addCalls[n].doc) >= 1 => Len(qs) <= PagesOf(addCalls[n].doc) - 1
C10_Witness ==
    /\ Completed(1)
    /\ PagesOf(1) = 7
    /\ Len(AddCallsOf(1)) = 1
    /\ Len(AddCallsOf(1)[1].questions) = 6

\* the text has none of the characters the answer-letter pattern matches
NoAnswerLetter(str) ==
    \A i \in 1..Len(str) :
        str[i] \notin {"ALEF_HAMZA_ABOVE", "BEH", "JEEM", "DAL",
                       "A", "B", "C", "D", "a", "b", "c", "d"}
FourLetters == {<<"ALEF_HAMZA_ABOVE">>, <<"BEH">>, <<"JEEM">>, <<"DAL">>}

\* C11: every Question that processSinglePage returns has the options
\* alef-hamza, beh, jeem, dal in this order and a correctAnswer that is one of
\* these four letters, never null or empty, whatever the text layer and the
\* OCR gave.
C11_QuestionWellFormed ==
    (pagePc = "returned" /\ pageResult # Null) =>
        /\ pageResult[1].options =
              << <<"ALEF_HAMZA_ABOVE">>, <<"BEH">>, <<"JEEM">>, <<"DAL">> >>
        /\ pageResult[1].correctAnswer # Null
        /\ pageResult[1].correctAnswer # <<<<>>>>
        /\ \E letter \in FourLetters : pageResult[1].correctAnswer = <<letter>>
C11_Witness ==
    /\ pagePc = "returned"
    /\ pageResult # Null
    /\ ocrCalls = 1
    /\ textLayer.text = <<"J">>
    /\ ocr.text = <<"c", ":">>
    /\ pageResult[1].correctAnswer = <<<<"JEEM">>>>

\* C12: detectAnswerFromImage is called for a page if and only if
\* detectAnswerFromPdfText returned null (also when the text layer threw), at
\* most once; when the text layer gives a letter, this letter is the
\* correctAnswer of the Question.
C12_OcrOnlyAfterNull ==
    /\ pagePc \in {"render", "pdfText"} => ocrCalls = 0
    /\ pagePc \in {"ocr", "returned"} /\ (pagePc = "ocr" \/ pageResult # Null) =>
          /\ ocrCalls = (IF pdfTextAnswer = Null THEN 1 ELSE 0)
          /\ textLayer.threw => ocrCalls = 1
    /\ (pagePc = "returned" /\ pageResult # Null /\ pdfTextAnswer # Null) =>
          pageResult[1].correctAnswer = pdfTextAnswer
C12_Witness ==
    /\ pagePc = "returned"
    /\ pdfTextAnswer = <<<<"BEH">>>>
    /\ ocrCalls = 0
    /\ ocr.text = <<"c">>
    /\ pageResult[1].correctAnswer = <<<<"BEH">>>>

\* C13: detectAnswerFromImage never returns null: it returns one of the four
\* letters, and alef-hamza when Tesseract throws or its text has no answer
\* letter; a page whose text layer threw or is empty and whose OCR text has no
\* answer letter gives a Question with correctAnswer alef-hamza.
C13_OcrNeverNull ==
    (pagePc = "returned" /\ ocrCalls = 1) =>
        /\ detectedAnswer # Null
        /\ \E letter \in FourLetters : detectedAnswer = <<letter>>
        /\ (ocr.threw \/ NoAnswerLetter(ocr.text)) =>
              detectedAnswer = <<<<"ALEF_HAMZA_ABOVE">>>>
        /\ ((textLayer.threw \/ textLayer.text = <<>>)
              /\ (ocr.threw \/ NoAnswerLetter(ocr.text))) =>
              /\ pageResult # Null
              /\ pageResult[1].correctAnswer = <<<<"ALEF_HAMZA_ABOVE">>>>
C13_Witness ==
    /\ pagePc = "returned"
    /\ ocrCalls = 1
    /\ textLayer.threw
    /\ ocr.text = <<":", "J">>
    /\ pageResult[1].correctAnswer = <<<<"ALEF_HAMZA_ABOVE">>>>

\* the cleaned string: the text without white space, zero-width and
\* direction marks, '_', '-' and '.'
Cleaned == SelectSeq(text, LAMBDA c : c \notin {" ", "NBSP", "ZWSP", "ZWNJ", "ZWJ",
                                                "LRM", "RLM", "_", "-", "."})
\* marker n occurs in the cleaned string from position i on
MarkerAt(n, i) ==
    /\ i >= 1
    /\ i + Len(markers[n]) - 1 <= Len(Cleaned)
    /\ SubSeq(Cleaned, i, i + Len(markers[n]) - 1) = markers[n]
MarkerFound == \E n \in 1..Len(markers) : \E i \in 1..Len(Cleaned) : MarkerAt(n, i)
\* the canonical letter of each accepted alias
CanonicalOf(c) ==
    CASE c \in {"ALEF_HAMZA_ABOVE", "ALEF", "A", "a"} -> <<"ALEF_HAMZA_ABOVE">>
      [] c \in {"BEH", "B", "b"} -> <<"BEH">>
      [] c \in {"JEEM", "C", "c", "J"} -> <<"JEEM">>
      [] c \in {"DAL", "D", "d"} -> <<"DAL">>
Aliases ==
    {"ALEF_HAMZA_ABOVE", "ALEF", "A", "a", "BEH", "B", "b", "JEEM", "C", "c", "J",
     "DAL", "D", "d"}
\* the answer-letter alphabet: the four letters and A, B, C, D in both cases
AnswerAlphabet ==
    {"ALEF_HAMZA_ABOVE", "BEH", "JEEM", "DAL", "A", "B", "C", "D", "a", "b", "c", "d"}

\* C14: when the cleaned string holds a marker immediately followed by an
\* accepted alias (alef-hamza/alef/A/a, beh/B/b, jeem/C/c/J, dal/D/d) and no
\* marker occurs later, extractAnswerFromText returns the canonical letter of
\* the group of this alias.
C14_MarkerThenAlias ==
    extractPc = "returned" =>
        \A n \in 1..Len(markers) : \A i \in 1..Len(Cleaned) :
            LET after == i + Len(markers[n])
            IN (/\ MarkerAt(n, i)
                /\ after <= Len(Cleaned)
                /\ Cleaned[after] \in Aliases
                /\ \A m \in 1..Len(markers) : \A j \in (i + 1)..Len(Cleaned) :
                      ~MarkerAt(m, j))
               => extracted = <<CanonicalOf(Cleaned[after])>>

\* C15: when the cleaned string holds no marker and has fewer than 10
\* characters, extractAnswerFromText returns the canonical letter of its first
\* character of the answer-letter alphabet.
C15_ShortTextFallback ==
    (extractPc = "returned" /\ ~MarkerFound /\ Len(Cleaned) < 10) =>
        \A i \in 1..Len(Cleaned) :
            (/\ Cleaned[i] \in AnswerAlphabet
             /\ \A j \in 1..(i - 1) : Cleaned[j] \notin AnswerAlphabet)
            => extracted = <<CanonicalOf(Cleaned[i])>>
C15_Witness ==
    /\ extractPc = "returned"
    /\ text = <<"ALEF", " ", "b">>
    /\ extracted = <<<<"BEH">>>>

\* the position after the governing marker occurrence: the occurrence that
\* starts furthest right, the longest marker there
AfterGoverning ==
    LET starts == {i \in 1..Len(Cleaned) : \E n \in 1..Len(markers) : MarkerAt(n, i)}
        g == CHOOSE i \in starts : \A j \in starts : i >= j
        lens == {Len(markers[n]) : n \in {m \in 1..Len(markers) : MarkerAt(m, g)}}
    IN g + (CHOOSE l \in lens : \A k \in lens : l >= k)

\* C16: extractAnswerFromText returns null when no marker is found and the
\* cleaned string has 10 characters or more, and when a marker is found but no
\* character of the answer-letter alphabet follows the governing marker
\* occurrence (the short-text fallback applies only if no marker is found).
C16_NullWhenNothingAttributable ==
    extractPc = "returned" =>
        /\ (~MarkerFound /\ Len(Cleaned) >= 10) => extracted = Null
        /\ (MarkerFound /\ \A j \in AfterGoverning..Len(Cleaned) :
                              Cleaned[j] \notin AnswerAlphabet)
              => extracted = Null

BoxCommitted(box) ==
    /\ box # Null
    /\ box[1].width > 20
    /\ box[1].height > 20
    /\ box[1].x >= 0
    /\ box[1].y >= 0
\* the rectangle between the two corners of a drag
Dragged(up) ==
    [x |-> IF up.x <= up.from.x THEN up.x ELSE up.from.x,
     y |-> IF up.y <= up.from.y THEN up.y ELSE up.from.y,
     width |-> IF up.x >= up.from.x THEN up.x - up.from.x ELSE up.from.x - up.x,
     height |-> IF up.y >= up.from.y THEN up.y - up.from.y ELSE up.from.y - up.y]

\* C17: a drag is committed only if its rectangle is more than 20 wide and
\* more than 20 high; a smaller one leaves both boxes as they were; a
\* committed one replaces the box of the active kind and leaves the other box;
\* so every box of the configuration has width > 20, height > 20, x >= 0 and
\* y >= 0.
C17_CommitOnlyLargeBoxes ==
    /\ [](/\ cropConfig.questionBox # Null => BoxCommitted(cropConfig.questionBox)
          /\ cropConfig.answerBox # Null => BoxCommitted(cropConfig.answerBox))
    /\ [][/\ lastCalib'.event # "up" => cropConfig' = cropConfig
          /\ lastCalib'.event = "up" =>
                LET box == Dragged(lastCalib')
                IN IF box.width > 20 /\ box.height > 20
                   THEN IF lastCalib'.mode = "question"
                        THEN /\ cropConfig'.questionBox = <<box>>
                             /\ cropConfig'.answerBox = cropConfig.answerBox
                        ELSE /\ cropConfig'.answerBox = <<box>>
                             /\ cropConfig'.questionBox = cropConfig.questionBox
                   ELSE /\ cropConfig' = cropConfig
                        /\ storedCropConfig' = storedCropConfig]_vars
C17_Witness ==
    /\ lastCalib.event = "up"
    /\ lastCalib.mode = "answer"
    /\ lastCalib.from = [x |-> 31, y |-> 10]
    /\ lastCalib.x = 10
    /\ lastCalib.y = 31
    /\ cropConfig.answerBox = <<[x |-> 10, y |-> 10, width |-> 21, height |-> 21]>>
    /\ cropConfig.questionBox = <<RefBox>>

\* the blob holds the box: the literal null, or its x, y, width and height
BlobHolds(json, box) ==
    IF box = Null THEN json = <<>>
    ELSE json = <<box[1].x, box[1].y, box[1].width, box[1].height>>

\* C18: the blob in localStorage equals the configuration in memory after
\* every committed change, and the configuration loaded at mount equals the
\* blob last persisted; with nothing persisted both boxes are null.
C18_PersistedEqualsMemory ==
    IF storedCropConfig = Null
    THEN cropConfig.questionBox = Null /\ cropConfig.answerBox = Null
    ELSE /\ BlobHolds(storedCropConfig[1][1], cropConfig.questionBox)
         /\ BlobHolds(storedCropConfig[1][2], cropConfig.answerBox)
C18_Witness ==
    /\ lastCalib.event = "mount"
    /\ cropConfig.questionBox = <<[x |-> 0, y |-> 0, width |-> 30, height |-> 31]>>
    /\ cropConfig.answerBox = Null
    /\ storedCropConfig = << <<<<0, 0, 30, 31>>, <<>>>> >>

\* C19: during a run the processed-page counter and the progress percentage
\* never decrease from one update to the next.
C19_ProgressNeverDecreases ==
    [][(isProcessing /\ isProcessing') =>
          /\ globalProcessedCount' >= globalProcessedCount
          /\ processProgress' >= processProgress]_vars

\* pages of the run that have completed, with a Question or without
CompletedPages == {t \in tasks : t.state \in {"ok", "null"}}
\* Math.round(100 * a / b) for b > 0
Percentage(a, b) == CHOOSE n \in 0..(100 * a + 1) : 2 * b * n <= 200 * a + b /\ 200 * a + b < 2 * b * (n + 1)

\* C20: the processed counter counts every completed page once, failed or
\* not, so when a document is finished the counter has grown by the number of
\* its processable pages; the percentage reported after a window is the
\* counter divided by the processable pages of all the documents of the run.
C20_CounterAndPercentage ==
    /\ [](RunKnown =>
            /\ pc # "window" => globalProcessedCount = Cardinality(CompletedPages)
            /\ pc \in {"reading", "success"} =>
                  globalProcessedCount =
                      SumProcessable({k \in RunDocs : Completed(k) \/ k < docIdx}))
    /\ [][(/\ pc = "window"
           /\ pc' \in {"window", "reading"}
           /\ processProgress' # processProgress)
          => processProgress' =
                Percentage(globalProcessedCount', SumProcessable(RunDocs))]_vars

\* the completion after which every processable page of the run is processed
FinalCompletion(u) == u.count = SumProcessable(RunDocs)

\* C21: progress is reported at every completion at which the processed
\* count is a multiple of 5 and at the final completion, and at no other
\* completion; the report at the final completion of a successful run is
\* 100%.
C21_ReportEveryFifthAndFinal ==
    /\ \A i \in 1..Len(updates) :
          updates[i].reported <=> (updates[i].count % 5 = 0 \/ FinalCompletion(updates[i]))
    /\ \A i \in 1..Len(updates) :
          (pc = "success" /\ FinalCompletion(updates[i])) => updates[i].value = 100

\* C28: in every state of a batch run the reported progress is between 0
\* and 100 and the processed counter never exceeds the pre-computed total of
\* processable pages, also when reading a document fails in the counting
\* pass and succeeds in the conversion pass.
C28_ProgressAndCounterBounded ==
    RunKnown =>
        /\ processProgress \in 0..100
        /\ globalProcessedCount <= totalPagesToProcess

\* C30: distinct addTest calls return distinct Test ids, so in a batch of
\* several documents the addQuestionsToTest call for one document never
\* names the Test created for another document.
C30_DistinctTestIds ==
    /\ \A i, j \in 1..Len(createCalls) :
          i # j => createCalls[i].id # createCalls[j].id
    /\ \A i \in 1..Len(createCalls) : \A j \in 1..Len(addCalls) :
          createCalls[i].id = addCalls[j].testId => createCalls[i].doc = addCalls[j].doc

\* the first character of the answer-letter alphabet from position from on
FirstLetterFrom(from) ==
    LET hits == {j \in from..Len(Cleaned) : Cleaned[j] \in AnswerAlphabet}
    IN IF hits = {} THEN Null
       ELSE <<CanonicalOf(Cleaned[CHOOSE j \in hits : \A h \in hits : j <= h])>>

\* C22: with one or several markers in the cleaned string the governing one
\* is the marker occurrence with the greatest start index, whichever marker
\* it is, the longest of the markers starting there; the answer letter is
\* searched only after the end of this occurrence.
C22_GoverningMarker ==
    (extractPc = "returned" /\ MarkerFound) =>
        /\ FirstLetterFrom(AfterGoverning) # Null =>
              extracted = FirstLetterFrom(AfterGoverning)
        /\ extracted # Null => extracted = FirstLetterFrom(AfterGoverning)

\* C23: normalizeAnswer applied to a single character is a pure function: it
\* maps each alias to the canonical letter of the alias's group, one of the
\* four letters, and every other character to null, with the same result at
\* every call; every character the answer-letter pattern of
\* extractAnswerFromText can match is mapped to a letter, not to null.
C23_NormalizeSingleCharacter ==
    \A i \in 1..Len(normResults) :
        /\ normArg[1] \in Aliases =>
              /\ normResults[i] = <<CanonicalOf(normArg[1])>>
              /\ normResults[i][1] \in FourLetters
        /\ normArg[1] \notin Aliases => normResults[i] = Null
        /\ normResults[i] = normResults[1]
        /\ normArg[1] \in AnswerAlphabet => normResults[i] # Null
C23_Witness ==
    /\ normArg = <<"J">>
    /\ normResults = << <<<<"JEEM">>>>, <<<<"JEEM">>>> >>

\* C24: the thresholding of preprocessImage sets R, G and B of each pixel to
\* 0 when 0.2126*R + 0.7152*G + 0.0722*B, as the loop evaluates it, is
\* below 140, and to 255 otherwise; every output colour channel is 0 or 255;
\* running the thresholding over its own output changes nothing.
C24_Thresholding ==
    \A n \in 1..Len(passResults) : \A i \in 1..Len(srcData) :
        LET in == IF n = 1 THEN srcData[i] ELSE passResults[n - 1][i]
            out == passResults[n][i]
            dark == \/ 2126 * in.r + 7152 * in.g + 722 * in.b < 1400000
                    \/ <<in.r, in.g, in.b>> \in {<<58, 167, 114>>, <<75, 157, 163>>}
        IN /\ out.r = (IF dark THEN 0 ELSE 255)
           /\ out.g = out.r
           /\ out.b = out.r
           /\ out.r \in {0, 255}
           /\ n > 1 => passResults[n] = passResults[1]
C24_Witness ==
    /\ srcData = <<[r |-> 140, g |-> 140, b |-> 140, a |-> 255]>>
    /\ Len(passResults) = 2
    /\ passResults[2] = <<[r |-> 255, g |-> 255, b |-> 255, a |-> 255]>>

\* the n-th sorted token comes before the m-th one in the raw string
\* (the strings of the tokens are one character each)
ComesFirst(n, m) ==
    \E i, j \in 1..Len(rawText[1]) :
        /\ i < j
        /\ <<rawText[1][i]>> = sortedItems[1][n].str
        /\ <<rawText[1][j]>> = sortedItems[1][m].str

\* C27: in the raw string, for any two kept tokens, the one with the smaller
\* y comes first if their y differ by more than 5, and the one with the
\* smaller x comes first if their y differ by at most 5, for every set of
\* kept tokens.
C27_RowThenColumnOrder ==
    rawText # Null =>
        \A n, m \in 1..Len(sortedItems[1]) :
            LET a == sortedItems[1][n]
                b == sortedItems[1][m]
            IN /\ (Abs(a.y - b.y) > 5 /\ a.y < b.y) => ComesFirst(n, m)
               /\ (Abs(a.y - b.y) <= 5 /\ a.x < b.x) => ComesFirst(n, m)

\* C25: every page of one batch run is cropped with the boxes that were
\* current when the run started; a calibration committed while the run is in
\* flight does not change the boxes used for the pages that remain.
C25_RunKeepsItsBoxes ==
    /\ [](\A c \in cropsUsed :
             /\ c.questionBox = runCropConfig.questionBox
             /\ c.answerBox = runCropConfig.answerBox)
    /\ [][(~isProcessing /\ isProcessing') => runCropConfig' = cropConfig]_vars
    /\ [][(isProcessing /\ isProcessing') => runCropConfig' = runCropConfig]_vars
C25_Witness ==
    /\ isProcessing
    /\ runFiles = <<3, 3>>
    /\ \E c \in cropsUsed :
          /\ c.doc = 2
          /\ c.state.questionBox =
                Some([x |-> 0, y |-> 0, width |-> 31, height |-> 31])
          /\ c.questionBox = Some(RefBox)

\* C26: every started batch whose reads and page tasks each eventually
\* settle eventually leaves the processing state: it reaches the success
\* status or the error status, and isProcessing is eventually false again.
C26_BatchTerminates ==
    /\ isProcessing ~> ~isProcessing
    /\ [][(isProcessing /\ ~isProcessing') =>
             (processStatus = StatusSuccess \/ processStatus' = StatusError)]_vars
C26_Witness ==
    /\ ~isProcessing
    /\ pc = "idle"
    /\ lastCall = "started"
    /\ runFiles = <<1, 3>>
    /\ Len(updates) = 3
    /\ processStatus = StatusIdle

\* the original ids of the questions under review
UnderReview ==
    UNION {{userData.reviewTests[t].questions[j].originalId :
               j \in 1..Len(userData.reviewTests[t].questions)} :
           t \in 1..Len(userData.reviewTests)}
\* the questions of an attempt answered wrongly or left unanswered
NotRight(attempt) ==
    {attempt.questions[i].id : i \in
        {k \in 1..Len(attempt.questions) :
            \A j \in 1..Len(attempt.answers) :
                attempt.answers[j].questionId = attempt.questions[k].id =>
                    attempt.answers[j].answer \notin {<<"BEH">>, <<"BEH", " ">>}}}

\* C29: after addAttemptToHistory for an attempt on a test that is not a
\* review test, by a regular or preview user, with at least one question
\* answered wrongly or left unanswered, the user data holds the new attempt
\* at the head of the history and every such question is under review: the
\* review update and the history update of the call do not overwrite one
\* another.
C29_AttemptAndReviewBothSaved ==
    \A n \in 1..Len(attemptLog) :
        (/\ userKind \in {"regular", "preview"}
         /\ attemptLog[n].written
         /\ attemptLog[n].attempt.testId[1] # "review_"
         /\ NotRight(attemptLog[n].attempt) # {})
        => /\ userData.history # <<>>
           /\ Head(userData.history).testId = attemptLog[n].attempt.testId
           /\ Head(userData.history).answers = attemptLog[n].attempt.answers
           /\ NotRight(attemptLog[n].attempt) \subseteq UnderReview

====
